---- MODULE Spec2Model ----
(***************************************************************************)
(* Model of parrot's recording-to-transcription pipeline.                  *)
(*                                                                         *)
(* Main process: AudioService (capture engine), the IPC handlers           *)
(* audio:start / audio:stop / audio:cancel, TranscriptionManager,          *)
(* TranscriptionDatabase.insert and ClipboardManager.                      *)
(* Renderer: the zustand store's recordingState, the listeners of App.tsx  *)
(* and the record button of RecordingView.                                 *)
(*                                                                         *)
(* ipcRenderer.invoke delivers requests to the main process in the order   *)
(* they are issued, so a request is modelled as issued and handled in one  *)
(* step; what the renderer knows of the main process lags behind by the    *)
(* messages still in `chan` (webContents.send is asynchronous).            *)
(* An async handler is split at its await points: the part up to the       *)
(* first await runs with the request, the continuations are                *)
(* TranscribeDone and PasteDone.                                           *)
(***************************************************************************)
EXTENDS Integers, Sequences, FiniteSets, TLC

\* ---- bounds ------------------------------------------------------------
MaxRequests == 5    \* requests issued by the renderer / IPC boundary
MaxChunks == 1      \* chunks delivered by the device in one capture session
MaxEnvRequests == 2 \* requests issued when the device and the settings vary
MaxDeviceErrors == 1 \* 'error' events raised by the device
MaxInserts == 2     \* rows inserted into the history database
MaxClock == 1       \* seconds that pass while the database is used
MaxPcmLen == 3      \* bytes in a PCM buffer handed to the encoder
MaxEncodes == 2     \* calls of the encoder
MaxSegments == 2    \* segments, and words, in a provider response
MaxLiveRequests == 3 \* requests issued when every pending call settles
MaxKeyEvents == 5   \* key events and push-to-talk manager calls

\* ---- input domains -----------------------------------------------------
\* A chunk is a sequence of PCM samples; chunks of different lengths.
Chunks == {<<1>>, <<2, 1>>}
Texts == {"hello"}
BackendMessages == {"rate limited"}
UserClipboard == "user"

NotRecordingMessage == "Not recording"
NotConfiguredMessage == "OpenAI API key not configured. Please add it in Settings."
PasteFailedMessage == "Command failed: xdotool key ctrl+v"
InsertFailedMessage == "database is locked"
DefaultMessage == "Transcription failed"
DeviceMessages == {"Could not open stream"}
StartStages == {"open", "start"}
ConfigKeys == {"transcription.openai.apiKey", "transcription.openai"}
CopyTexts == Texts \cup {"abc"}
ExternalTexts == {"", UserClipboard, "other"}
ServiceNames == {"openai", "local"}
ApiKeys == {"sk-stored", "sk-new"}
Models == {"whisper-1", "gpt-4o-transcribe"}
StoredKey == "sk-stored"
StoredModel == "whisper-1"

\* texts as character sequences; durations in half milliseconds, so that
\* 2401 is 1200.5 ms
HistoryTexts == {<<"a", "b">>, <<"a", " ", "b">>, <<"b">>}
TranscriptionResults ==
    {[text |-> <<"a", "b">>, language |-> "en", duration |-> 2400],
     [text |-> <<"a", " ", "b">>, language |-> "en", duration |-> 2401],
     [text |-> <<"b">>, language |-> "unknown", duration |-> 0]}
HistoryServiceNames == {"OpenAI Whisper"}
DefaultLimit == 50
Limits == {0, 1, 2}
PcmBytes == {0, 255}
SampleRates == {16000, 44100}
ChannelCounts == {1, 2}
SampleSizes == {16}
\* numbers of the provider response, counted in halves: 0.5 and 1.5 seconds
ProviderTimes == {1, 3}
ProviderDurations == {0, 3}
ProviderLanguages == {"en"}
ModifierKeys == {"RightAlt", "LeftAlt"}

VARIABLES
    \* AudioService
    audioIO,            \* TRUE while a device handle is held (audioIO != null)
    chunks,             \* this.chunks
    isRecording,        \* this.isRecording
    opens,              \* number of AudioIO handles opened so far
    levels,             \* number of 'audio:level' events forwarded
    leaked,             \* handles opened, never quit and no longer referenced
    deviceErrors,       \* 'error' events raised by the device so far
    lateChunks,         \* chunks delivered by a device after its quit()
    \* setupIpcHandlers closure
    currentAudioBuffer, \* let currentAudioBuffer
    \* TranscriptionManager and config store
    configured,         \* services.has(primaryService)
    apiKey,             \* config.transcription.openai.apiKey is non-empty
    autoCopy,           \* config.output.autoCopy
    autoPaste,          \* config.output.autoPaste
    services,           \* this.services: Map entries in insertion order
    primaryService,     \* this.primaryService
    lastMgr,            \* the last TranscriptionManager call made on its own
    \* TranscriptionDatabase
    db,                 \* the database file behind this.db
    clock,              \* CURRENT_TIMESTAMP, in seconds
    lastDb,             \* the last TranscriptionDatabase call made on its own
    \* PushToTalkManager, uIOhook and the listeners of setupPushToTalk
    ptt,                \* modifierKey, isPressed, isRunning; the listener
                        \* pairs registered with the hook, the keys held
                        \* down, the events emitted, the toggle messages
                        \* sent and the key events and calls so far
    \* OpenAITranscriptionService
    conv,               \* the provider's response and the result made of it
    \* wav-encoder
    enc,                \* the last encodeWav call, the calls made so far and
                        \* whether the call before had the same arguments
    rows,               \* rows of table transcriptions
    nextId,             \* AUTOINCREMENT sequence
    \* ClipboardManager and the system clipboard
    clip,               \* clipboard.readText()
    previousContent,    \* this.previousContent
    keystrokes,         \* synthetic paste keystrokes issued
    beforeCopy,         \* the clipboard text the last copy() call found
    lastOp,             \* the last ClipboardManager call made on its own,
                        \* and whether the clipboard was changed since
    \* running and finished invocations of the audio:stop handler
    pipes,              \* sequence, one record per invocation (cycle)
    \* events sent to the renderer
    state,              \* last value sent on 'recording:state'
    edges,              \* pairs (previous, next) of values sent on it so far
    errs,               \* per cycle: messages sent on 'error'
    results,            \* per cycle: texts sent on 'transcription:result'
    chan,               \* messages sent and not yet received by the renderer
    \* renderer
    recordingState,     \* useStore recordingState
    \* requests
    nReq,               \* requests issued so far
    lastCall            \* the last request, what it met and what it returned

vars == <<audioIO, chunks, isRecording, opens, levels, leaked, deviceErrors,
          lateChunks, currentAudioBuffer, configured, apiKey, autoCopy,
          autoPaste, rows, nextId, clip, previousContent, keystrokes,
          beforeCopy, lastOp, pipes, state, edges, errs, results, chan,
          recordingState, nReq, lastCall, services, primaryService,
          lastMgr, db, lastDb, clock, enc, conv, ptt>>

libVars == <<enc, conv, ptt>>
unitVars == <<primaryService, lastMgr, db, lastDb, clock, libVars>>
audioVars == <<audioIO, chunks, isRecording, opens, levels, leaked>>
deviceVars == <<deviceErrors, lateChunks>>
opVars == <<beforeCopy, lastOp>>
configVars == <<apiKey, autoCopy, autoPaste>>
clipVars == <<clip, previousContent, keystrokes>>
dbVars == <<rows, nextId>>

RecordingStates == {"idle", "recording", "processing", "complete", "error"}

\* ---- pure helpers ------------------------------------------------------

\* Buffer.concat(list)
RECURSIVE BufferConcat(_)
BufferConcat(list) ==
    IF list = <<>> THEN <<>> ELSE Head(list) \o BufferConcat(Tail(list))

\* variant: the catch block always reports the fallback text
ErrorMessage_Fallback(error) == DefaultMessage

\* error instanceof Error ? error.message : 'Transcription failed'
ErrorMessage(error) ==
    IF error.isError THEN error.message ELSE DefaultMessage

\* new Error(message)
Error(message) == [isError |-> TRUE, message |-> message]

StateMsg(s) == [type |-> "state", val |-> s]
ErrorMsg(m) == [type |-> "error", val |-> m]
ResultMsg(t) == [type |-> "result", val |-> t]

\* new values of the last emitted state and of the emitted edges after
\* sending msgs in order (only 'recording:state' messages carry a state)
RECURSIVE StateAfter(_, _)
StateAfter(s, msgs) ==
    IF msgs = <<>> THEN s
    ELSE StateAfter(IF Head(msgs).type = "state" THEN Head(msgs).val ELSE s,
                    Tail(msgs))

RECURSIVE EdgesOf(_, _)
EdgesOf(s, msgs) ==
    IF msgs = <<>> THEN {}
    ELSE IF Head(msgs).type = "state"
         THEN {<<s, Head(msgs).val>>} \cup EdgesOf(Head(msgs).val, Tail(msgs))
         ELSE EdgesOf(s, Tail(msgs))

\* mainWindow.webContents.send(...), once per message of msgs
Send(msgs) ==
    /\ chan' = chan \o msgs
    /\ state' = StateAfter(state, msgs)
    /\ edges' = edges \cup EdgesOf(state, msgs)

\* ClipboardManager.copy on the pair (system clipboard, previousContent)
ClipboardCopy(cb, text) == [clip |-> text, prev |-> cb.clip]

\* variant: restorePrevious that leaves the snapshot in the slot
ClipboardRestore_KeepSlot(cb) ==
    IF cb.prev # "" THEN [clip |-> cb.prev, prev |-> cb.prev] ELSE cb

\* ClipboardManager.restorePrevious on the same pair; the slot is tested
\* for truthiness, so the empty string counts as no snapshot
ClipboardRestore(cb) ==
    IF cb.prev # "" THEN [clip |-> cb.prev, prev |-> ""] ELSE cb

\* variant: a lingering error is not treated as idle
ToggleTarget_ErrorIgnored(s) ==
    IF s \in {"idle", "complete"} THEN "start"
    ELSE IF s = "recording" THEN "stop"
    ELSE "none"

\* the state test of the hotkey listener
ToggleTarget(s) ==
    IF s \in {"idle", "complete", "error"} THEN "start"
    ELSE IF s = "recording" THEN "stop"
    ELSE "none"

\* the record button: onClick and disabled
ButtonTarget(s) ==
    IF s = "processing" THEN "none"
    ELSE IF s = "recording" THEN "stop"
    ELSE "start"

\* a Map as the sequence of its entries in insertion order
MapHas(map, k) == \E i \in DOMAIN map : map[i].key = k

MapGet(map, k) == map[CHOOSE i \in DOMAIN map : map[i].key = k].value

MapSet(map, k, v) ==
    IF MapHas(map, k)
    THEN [i \in DOMAIN map |->
             IF map[i].key = k THEN [key |-> k, value |-> v] ELSE map[i]]
    ELSE Append(map, [key |-> k, value |-> v])

\* new OpenAITranscriptionService(apiKey, model)
OpenAITranscriptionService(key, model) ==
    [name |-> "OpenAI Whisper", apiKey |-> key, model |-> model]

\* variant: configureOpenAI that registers a new instance on every call
ConfigureOpenAI_Append(svcs, key, model) ==
    Append(svcs, [key |-> "openai",
                  value |-> OpenAITranscriptionService(key, model)])

\* TranscriptionManager.configureOpenAI: setApiKey and setModel on the
\* registered instance, or a new instance under 'openai'
ConfigureOpenAI(svcs, key, model) ==
    IF MapHas(svcs, "openai")
    THEN [i \in DOMAIN svcs |->
             IF svcs[i].key = "openai"
             THEN [svcs[i] EXCEPT !.value.apiKey = key, !.value.model = model]
             ELSE svcs[i]]
    ELSE MapSet(svcs, "openai", OpenAITranscriptionService(key, model))

\* TranscriptionManager.getAvailableServices
GetAvailableServices(svcs) == [i \in DOMAIN svcs |-> svcs[i].key]

\* variant: isConfigured that does not look at the registry
IsConfigured_Always(svcs, primary) == TRUE

\* TranscriptionManager.isConfigured
IsConfigured(svcs, primary) == MapHas(svcs, primary)

\* variant: setPrimaryService without the has(name) test
SetPrimaryService_NoGuard(svcs, primary, name) ==
    [primary |-> name, thrown |-> <<>>]

\* TranscriptionManager.setPrimaryService: the primary name afterwards
\* and the error thrown, if any
SetPrimaryService(svcs, primary, name) ==
    IF ~MapHas(svcs, name)
    THEN [primary |-> primary,
          thrown |-> <<Error(<<"Service", name, "not configured">>)>>]
    ELSE [primary |-> name, thrown |-> <<>>]

\* TranscriptionManager.transcribe up to the call of service.transcribe:
\* the instance it calls, if any, and the error thrown, if any
Transcribe(svcs, primary) ==
    IF ~MapHas(svcs, primary)
    THEN [service |-> <<>>,
          thrown |-> <<Error(<<"Transcription service", primary,
                               "not configured">>)>>]
    ELSE [service |-> <<MapGet(svcs, primary)>>, thrown |-> <<>>]

\* ---- OpenAITranscriptionService: the response ---------------------------

\* an optional field: <<>> when undefined, <<v>> when present
Or(field, default) == IF field = <<>> THEN default ELSE field[1]

\* variant: the duration passed on as the provider gave it
DurationToMs_Unconverted(duration) == Or(duration, 0)

\* (result.duration || 0) * 1000
DurationToMs(duration) == Or(duration, 0) * 1000

\* result.segments?.map(...) and result.words?.map(...): start and end
\* times 1000, text or word as it is
SegmentsToMs(segments) ==
    IF segments = <<>> THEN <<>>
    ELSE <<[i \in DOMAIN segments[1] |->
              [start |-> segments[1][i].start * 1000,
               end |-> segments[1][i].end * 1000,
               text |-> segments[1][i].text]]>>

WordsToMs(words) ==
    IF words = <<>> THEN <<>>
    ELSE <<[i \in DOMAIN words[1] |->
              [start |-> words[1][i].start * 1000,
               end |-> words[1][i].end * 1000,
               word |-> words[1][i].word]]>>

\* the TranscriptionResult made of the verbose_json response
ToTranscriptionResult(response) ==
    [text |-> response.text,
     language |-> Or(response.language, "unknown"),
     duration |-> DurationToMs(response.duration),
     segments |-> SegmentsToMs(response.segments),
     words |-> WordsToMs(response.words)]

\* sequences of at most n elements of S
SeqUpTo(S, n) == UNION {[1..k -> S] : k \in 0..n}

\* the responses of the provider
Optional(S) == {<<>>} \cup {<<v>> : v \in S}

ProviderSegments ==
    [start : ProviderTimes, end : ProviderTimes, text : {"hello"}]

ProviderWords ==
    [start : ProviderTimes, end : ProviderTimes, word : {"hello"}]

Responses ==
    [text : Texts,
     language : Optional(ProviderLanguages),
     duration : Optional(ProviderDurations),
     segments : Optional(SeqUpTo(ProviderSegments, MaxSegments)),
     words : Optional(SeqUpTo(ProviderWords, MaxSegments))]

NoResponse ==
    [text |-> "", language |-> <<>>, duration |-> <<>>, segments |-> <<>>,
     words |-> <<>>]

\* ---- PushToTalkManager --------------------------------------------------

\* the manager after setupPushToTalk: new PushToTalkManager('RightAlt'),
\* the two listeners and start()
PushToTalkManager(modifierKey) ==
    [modifierKey |-> modifierKey, isPressed |-> FALSE, isRunning |-> TRUE,
     listeners |-> 1, down |-> {}, emitted |-> <<>>, sent |-> 0, n |-> 0]

\* this.emit('start') with the listener of setupPushToTalk: a toggle
\* message is sent unless the capture engine is recording
EmitStart(p, recording) ==
    [p EXCEPT !.emitted = Append(@, "start"),
              !.sent = IF ~recording THEN @ + 1 ELSE @]

\* this.emit('stop') with the listener of setupPushToTalk: a toggle
\* message is sent if the capture engine is recording
EmitStop(p, recording) ==
    [p EXCEPT !.emitted = Append(@, "stop"),
              !.sent = IF recording THEN @ + 1 ELSE @]

\* one 'keydown' listener registered by start()
OnKeyDown(p, keycode, recording) ==
    IF keycode = p.modifierKey /\ ~p.isPressed
    THEN EmitStart([p EXCEPT !.isPressed = TRUE], recording)
    ELSE p

\* one 'keyup' listener registered by start()
OnKeyUp(p, keycode, recording) ==
    IF keycode = p.modifierKey /\ p.isPressed
    THEN EmitStop([p EXCEPT !.isPressed = FALSE], recording)
    ELSE p

\* the hook calls the k listeners registered for the event, one after the
\* other
RECURSIVE HookKeyDown(_, _, _, _)
HookKeyDown(p, keycode, recording, k) ==
    IF k = 0 THEN p
    ELSE HookKeyDown(OnKeyDown(p, keycode, recording), keycode, recording,
                     k - 1)

RECURSIVE HookKeyUp(_, _, _, _)
HookKeyUp(p, keycode, recording, k) ==
    IF k = 0 THEN p
    ELSE HookKeyUp(OnKeyUp(p, keycode, recording), keycode, recording, k - 1)

\* start()
PttStartCall(p) ==
    IF p.isRunning THEN p
    ELSE [p EXCEPT !.listeners = @ + 1, !.isRunning = TRUE]

\* stop()
PttStopCall(p) ==
    IF ~p.isRunning THEN p
    ELSE [p EXCEPT !.isRunning = FALSE, !.isPressed = FALSE]

\* setModifierKey(key)
SetModifierKey(p, key) == [p EXCEPT !.modifierKey = key]

\* ---- wav-encoder --------------------------------------------------------

\* Buffer.alloc(n): n zero bytes
Alloc(n) == [i \in 1..n |-> 0]

\* the bytes of buffer with bytes written at the 0-based offset
Write(buffer, bytes, offset) ==
    [i \in 1..Len(buffer) |->
        IF i > offset /\ i <= offset + Len(bytes)
        THEN bytes[i - offset] ELSE buffer[i]]

\* the bytes writeUInt32LE and writeUInt16LE write
UInt32LE(v) ==
    <<v % 256, (v \div 256) % 256, (v \div 65536) % 256,
      (v \div 16777216) % 256>>

UInt16LE(v) == <<v % 256, (v \div 256) % 256>>

\* the 32-bit little-endian number at the 0-based offset
ReadUInt32LE(buffer, offset) ==
    buffer[offset + 1] + 256 * buffer[offset + 2]
        + 65536 * buffer[offset + 3] + 16777216 * buffer[offset + 4]

\* the ASCII codes of the four chunk tags
RIFF == <<82, 73, 70, 70>>
WAVE == <<87, 65, 86, 69>>
FMT == <<102, 109, 116, 32>>
DATA == <<100, 97, 116, 97>>

HeaderLength == 44

\* variant: the size of the whole file in the RIFF header
RiffSize_WholeFile(totalLength) == totalLength

\* the size written after 'RIFF'
RiffSize(totalLength) == totalLength - 8

\* encodeWav(audioBuffer, sampleRate, channels, bitsPerSample): the writes
\* in the order of the code, offset advancing with each
EncodeWav(audioBuffer, sampleRate, channels, bitsPerSample) ==
    LET dataLength == Len(audioBuffer)
        totalLength == HeaderLength + dataLength
        b0 == Alloc(totalLength)
        b1 == Write(b0, RIFF, 0)
        b2 == Write(b1, UInt32LE(RiffSize(totalLength)), 4)
        b3 == Write(b2, WAVE, 8)
        b4 == Write(b3, FMT, 12)
        b5 == Write(b4, UInt32LE(16), 16)
        b6 == Write(b5, UInt16LE(1), 20)
        b7 == Write(b6, UInt16LE(channels), 22)
        b8 == Write(b7, UInt32LE(sampleRate), 24)
        b9 == Write(b8, UInt32LE((sampleRate * channels * bitsPerSample)
                                     \div 8), 28)
        b10 == Write(b9, UInt16LE((channels * bitsPerSample) \div 8), 32)
        b11 == Write(b10, UInt16LE(bitsPerSample), 34)
        b12 == Write(b11, DATA, 36)
        b13 == Write(b12, UInt32LE(dataLength), 40)
    IN  Write(b13, audioBuffer, 44)

\* the PCM buffers of at most n bytes
PcmBuffers(n) == UNION {[1..k -> PcmBytes] : k \in 0..n}

\* ---- TranscriptionDatabase ----------------------------------------------

\* the database after initSchema on a new file: table transcriptions, the
\* rows indexed by transcriptions_fts, the AUTOINCREMENT sequence, the
\* rollback journal and the statement whose triggers have not run yet;
\* returned and deleted remember the inserts that returned an id and the
\* ids removed since, reopened that the file was opened a second time
EmptyDatabase ==
    [transcriptions |-> {}, fts |-> {}, seq |-> 0, returned |-> {},
     deleted |-> {}, journal |-> <<>>, pending |-> <<>>,
     reopened |-> FALSE]

\* the record of a database call: its arguments, the rows or the id it
\* returned and whether it threw
DbCall(op, id, query, limit, arg, res, thrown) ==
    [op |-> op, id |-> id, query |-> query, limit |-> limit, arg |-> arg,
     rows |-> res, thrown |-> thrown]

\* variant: a duration stored in whole seconds
MathRound_Seconds(h) == 2000 * ((h + 1000) \div 2000)

\* Math.round on a number of half milliseconds
MathRound(h) == 2 * ((h + 1) \div 2)

\* the (rowid, text) pairs of a set of rows
Pairs(table) == {<<r.id, r.text>> : r \in table}

\* the largest rowid of a table, 0 for an empty one
MaxRowid(table) ==
    IF table = {} THEN 0
    ELSE CHOOSE m \in {r.id : r \in table} : \A r \in table : r.id <= m

\* variant: id INTEGER PRIMARY KEY without AUTOINCREMENT
NewRow_MaxRowid(d, result, service, now) ==
    [id |-> MaxRowid(d.transcriptions) + 1, text |-> result.text,
     language |-> result.language,
     duration |-> MathRound(result.duration), service |-> service,
     createdAt |-> now]

\* the row written by the INSERT statement of insert(result, service):
\* AUTOINCREMENT takes the id from the sequence kept in sqlite_sequence
NewRow(d, result, service, now) ==
    [id |-> d.seq + 1, text |-> result.text, language |-> result.language,
     duration |-> MathRound(result.duration), service |-> service,
     createdAt |-> now]

\* variant: no AFTER INSERT trigger
AfterInsert_Missing(index, new) == index

\* trigger transcriptions_ai for the rows in new
AfterInsert(index, new) == index \cup Pairs(new)

\* variant: no AFTER DELETE trigger
AfterDelete_Missing(index, old) == index

\* trigger transcriptions_ad for the rows in old
AfterDelete(index, old) == index \ Pairs(old)

\* the tokens of a text or of a query: maximal runs without a space
Tokens(t) ==
    {SubSeq(t, p[1], p[2]) :
        p \in {q \in (1..Len(t)) \X (1..Len(t)) :
                  /\ q[1] <= q[2]
                  /\ \A k \in q[1]..q[2] : t[k] # " "
                  /\ q[1] = 1 \/ t[q[1] - 1] = " "
                  /\ q[2] = Len(t) \/ t[q[2] + 1] = " "}}

\* the contiguous non-empty parts of a text
Substrings(t) ==
    {SubSeq(t, p[1], p[2]) :
        p \in {q \in (1..Len(t)) \X (1..Len(t)) : q[1] <= q[2]}}

\* fts5 MATCH of the query against an indexed text: every token of the
\* query is a token of the text
Matches(query, text) == Tokens(query) \subseteq Tokens(text)

\* the orders in which ORDER BY created_at DESC may return a set of rows:
\* rows of the same second in any order
OrderByCreatedAtDesc(S) ==
    {s \in [1..Cardinality(S) -> S] :
        /\ \A x \in S : \E i \in DOMAIN s : s[i] = x
        /\ \A i, j \in DOMAIN s : i < j => s[i].createdAt >= s[j].createdAt}

\* the limit parameter of getRecent: arg is <<>> when it is omitted
LimitOrDefault(arg) == IF arg = <<>> THEN DefaultLimit ELSE arg[1]

\* LIMIT n
Limit(s, n) == SubSeq(s, 1, IF n < Len(s) THEN n ELSE Len(s))

\* TranscriptionDatabase.getRecent(limit): the possible results
GetRecent(d, limit) ==
    {Limit(s, limit) : s \in OrderByCreatedAtDesc(d.transcriptions)}

\* the rows selected by the join of search(query)
SearchRows(d, query) ==
    {r \in d.transcriptions :
        \E e \in d.fts : e[1] = r.id /\ Matches(query, e[2])}

\* TranscriptionDatabase.search(query): the possible results
Search(d, query) ==
    {Limit(s, DefaultLimit) : s \in OrderByCreatedAtDesc(SearchRows(d, query))}

\* TranscriptionDatabase.getById(id): the row found, if any
GetById(d, id) ==
    IF \E r \in d.transcriptions : r.id = id
    THEN <<CHOOSE r \in d.transcriptions : r.id = id>>
    ELSE <<>>

\* one invocation of audio:stop: where it is, the buffer it passes to
\* transcribe, the text it got, the id insert returned (0: none), the
\* error its catch block caught (at most one), the number of calls of the
\* backend's transcribe and whether it configured the backend itself
NewPipe(pc, audio) ==
    [pc |-> pc, audio |-> audio, text |-> "", rowId |-> 0, thrown |-> <<>>,
     calls |-> 0, lazy |-> FALSE]

\* ---- initial state -----------------------------------------------------
Init ==
    /\ audioIO = FALSE
    /\ chunks = <<>>
    /\ isRecording = FALSE
    /\ opens = 0
    /\ levels = 0
    /\ leaked = 0
    /\ deviceErrors = 0
    /\ lateChunks = 0
    /\ currentAudioBuffer = <<>>
    /\ apiKey \in BOOLEAN
    /\ configured = apiKey
    /\ services = IF apiKey
                  THEN ConfigureOpenAI(<<>>, StoredKey, StoredModel)
                  ELSE <<>>
    /\ primaryService = "openai"
    /\ lastMgr = [op |-> "none", name |-> "", key |-> "", model |-> "",
                  service |-> <<>>, thrown |-> <<>>, had |-> FALSE]
    /\ db = EmptyDatabase
    /\ lastDb = DbCall("none", 0, <<>>, 0, <<>>, <<>>, FALSE)
    /\ clock = 0
    /\ ptt = PushToTalkManager("RightAlt")
    /\ conv = [pc |-> "idle", response |-> NoResponse,
               result |-> ToTranscriptionResult(NoResponse)]
    /\ enc = [n |-> 0, audioBuffer |-> <<>>, sampleRate |-> 16000,
              channels |-> 1, bitsPerSample |-> 16, out |-> <<>>,
              repeated |-> FALSE]
    /\ autoCopy \in BOOLEAN
    /\ autoPaste \in BOOLEAN
    /\ rows = {}
    /\ nextId = 1
    /\ clip = UserClipboard
    /\ previousContent = ""
    /\ keystrokes = 0
    /\ beforeCopy = ""
    /\ lastOp = [op |-> "none", changed |-> FALSE]
    /\ pipes = <<>>
    /\ state = "idle"
    /\ edges = {}
    /\ errs = <<>>
    /\ results = <<>>
    /\ chan = <<>>
    /\ recordingState = "idle"
    /\ nReq = 0
    /\ lastCall = [via |-> "none", req |-> "none", reply |-> "none",
                   active |-> FALSE, seen |-> "idle"]

\* ---- AudioService ------------------------------------------------------

\* AudioService.cleanup
Cleanup ==
    /\ audioIO' = FALSE
    /\ isRecording' = FALSE
    /\ chunks' = <<>>
    /\ UNCHANGED <<opens, levels, leaked>>

\* variant: startRecording without the isRecording guard
StartRecording_NoGuard ==
    /\ chunks' = <<>>
    /\ isRecording' = TRUE
    /\ audioIO' = TRUE
    /\ opens' = opens + 1
    /\ UNCHANGED <<levels, leaked>>

\* AudioService.startRecording (the device opens without error); a handle
\* still held in this.audioIO is overwritten without being quit
StartRecording ==
    IF isRecording
    THEN UNCHANGED audioVars
    ELSE /\ chunks' = <<>>
         /\ isRecording' = TRUE
         /\ audioIO' = TRUE
         /\ opens' = opens + 1
         /\ leaked' = IF audioIO THEN leaked + 1 ELSE leaked
         /\ UNCHANGED levels

\* AudioService.stopRecording when recording; the returned buffer is read
\* from this.chunks after cleanup() has run
StopRecording ==
    /\ Cleanup
    /\ currentAudioBuffer' = BufferConcat(chunks')

\* variant: cancelRecording that keeps the buffered chunks
CancelRecording_KeepChunks ==
    IF ~isRecording
    THEN UNCHANGED audioVars
    ELSE /\ audioIO' = FALSE
         /\ isRecording' = FALSE
         /\ UNCHANGED <<chunks, opens, levels, leaked>>

\* AudioService.cancelRecording
CancelRecording ==
    IF ~isRecording THEN UNCHANGED audioVars ELSE Cleanup

\* the 'data' listener of the started device and the 'level' forwarding
DataChunk ==
    /\ audioIO /\ isRecording
    /\ Len(chunks) < MaxChunks
    /\ \E chunk \in Chunks : chunks' = Append(chunks, chunk)
    /\ levels' = levels + 1
    /\ UNCHANGED <<audioIO, isRecording, opens, leaked, deviceVars, opVars, services, unitVars,
                   currentAudioBuffer, configured,
                   configVars, dbVars, clipVars, pipes, state, edges, errs,
                   results, chan, recordingState, nReq, lastCall>>

\* ---- IPC handlers ------------------------------------------------------

\* a request reaches its handler; reply is the value the handler returns
\* ("pending" while the handler is suspended at an await), active is
\* getIsRecording() when the request arrived and seen the recordingState
\* the renderer had when it sent the request
Call(via, req, reply) ==
    /\ nReq' = nReq + 1
    /\ lastCall' = [via |-> via, req |-> req, reply |-> reply,
                    active |-> isRecording, seen |-> recordingState]

\* the catch block of audio:stop for cycle c, after `before` has been sent
Catch(newPipes, newErrs, c, error, before) ==
    /\ pipes' = [newPipes EXCEPT ![c].pc = "error", ![c].thrown = <<error>>]
    /\ errs' = [newErrs EXCEPT ![c] = Append(@, ErrorMessage(error))]
    /\ Send(before \o <<ErrorMsg(ErrorMessage(error)), StateMsg("error")>>)

\* the lazy-configuration block of audio:stop: "ready" when a service is
\* registered, "configured" when one is created from the stored key,
\* "throw" when there is neither
ConfigureOutcome_NeverLazy(isConf, key) ==
    IF isConf THEN "ready" ELSE "throw"

ConfigureOutcome(isConf, key) ==
    IF isConf THEN "ready"
    ELSE IF key THEN "configured"
    ELSE "throw"

\* TranscriptionManager.transcribe: one call of the primary service
ManagerTranscribe_Retry(p) ==
    [p EXCEPT !.pc = "transcribing", !.calls = @ + 2]

ManagerTranscribe(p) ==
    [p EXCEPT !.pc = "transcribing", !.calls = @ + 1]

\* the last two sends of the try block of audio:stop
Complete_NoResult(newPipes, c, text) ==
    /\ pipes' = [newPipes EXCEPT ![c].pc = "complete"]
    /\ UNCHANGED results
    /\ Send(<<StateMsg("complete")>>)

Complete(newPipes, c, text) ==
    /\ pipes' = [newPipes EXCEPT ![c].pc = "complete"]
    /\ results' = [results EXCEPT ![c] = Append(@, text)]
    /\ Send(<<ResultMsg(text), StateMsg("complete")>>)

\* ipcMain.handle('audio:start')
AudioStart(via) ==
    /\ StartRecording
    /\ Send(<<StateMsg("recording")>>)
    /\ Call(via, "start", "ok")
    /\ UNCHANGED <<currentAudioBuffer, configured, configVars, dbVars,
                   clipVars, pipes, errs, results, recordingState,
                   deviceVars, opVars, services, unitVars>>

\* ipcMain.handle('audio:stop') up to the await of transcription.transcribe
AudioStop(via) ==
    LET c == Len(pipes) + 1
        outcome == ConfigureOutcome(configured, apiKey)
        p == [NewPipe("processing", currentAudioBuffer') EXCEPT
                  !.lazy = (outcome = "configured")]
    IN  /\ results' = Append(results, <<>>)
        /\ UNCHANGED <<configVars, dbVars, clipVars, recordingState,
                       deviceVars, opVars, unitVars>>
        /\ \/ \* stopRecording throws
              /\ ~isRecording
              /\ UNCHANGED <<audioVars, currentAudioBuffer, configured,
                             services>>
              /\ Catch(Append(pipes, NewPipe("stopping", <<>>)),
                       Append(errs, <<>>), c, Error(NotRecordingMessage), <<>>)
              /\ Call(via, "stop", "failed")
           \/ \* no service and no stored key
              /\ isRecording
              /\ StopRecording
              /\ outcome = "throw"
              /\ UNCHANGED <<configured, services>>
              /\ Catch(Append(pipes, p),
                       Append(errs, <<>>), c, Error(NotConfiguredMessage),
                       <<StateMsg("processing")>>)
              /\ Call(via, "stop", "failed")
           \/ \* transcription.transcribe is called
              /\ isRecording
              /\ StopRecording
              /\ outcome # "throw"
              /\ configured' = TRUE
              /\ services' = IF outcome = "configured"
                             THEN ConfigureOpenAI(services, StoredKey,
                                                  StoredModel)
                             ELSE services
              /\ pipes' = Append(pipes, ManagerTranscribe(p))
              /\ errs' = Append(errs, <<>>)
              /\ Send(<<StateMsg("processing")>>)
              /\ Call(via, "stop", "pending")

\* ipcMain.handle('audio:cancel')
AudioCancel ==
    /\ nReq < MaxRequests
    /\ CancelRecording
    /\ Send(<<StateMsg("idle")>>)
    /\ Call("ipc", "cancel", "ok")
    /\ UNCHANGED <<currentAudioBuffer, configured, configVars, dbVars,
                   clipVars, pipes, errs, results, recordingState,
                   deviceVars, opVars, services, unitVars>>

\* audio:stop resumes after `await transcription.transcribe(...)`:
\* the backend resolves with a text or rejects with an error
TranscribeDone(c) ==
    /\ pipes[c].pc = "transcribing"
    /\ UNCHANGED <<audioVars, currentAudioBuffer, configured, configVars,
                   recordingState, nReq, lastCall, keystrokes, deviceVars,
                   opVars, services, unitVars>>
    /\ \/ \* the backend rejects
          /\ \E m \in BackendMessages :
                Catch(pipes, errs, c, Error(m), <<>>)
          /\ UNCHANGED <<dbVars, clip, previousContent, results>>
       \/ \* the backend resolves, database.insert throws
          /\ \E text \in Texts :
                Catch([pipes EXCEPT ![c].text = text], errs, c,
                      Error(InsertFailedMessage), <<>>)
          /\ UNCHANGED <<dbVars, clip, previousContent, results>>
       \/ \* the backend resolves, the row is inserted
          \E text \in Texts :
            LET cb0 == [clip |-> clip, prev |-> previousContent]
                cb1 == IF autoCopy THEN ClipboardCopy(cb0, text) ELSE cb0
                cb2 == IF autoPaste THEN ClipboardCopy(cb1, text) ELSE cb1
                saved == [pipes EXCEPT ![c].text = text, ![c].rowId = nextId]
            IN  /\ rows' = rows \cup {[id |-> nextId, text |-> text]}
                /\ nextId' = nextId + 1
                /\ clip' = cb2.clip
                /\ previousContent' = cb2.prev
                /\ IF autoPaste
                   THEN \* suspended at `await this.paste()`
                        /\ pipes' = [saved EXCEPT ![c].pc = "pasting"]
                        /\ UNCHANGED <<errs, results, chan, state, edges>>
                   ELSE /\ Complete(saved, c, text)
                        /\ UNCHANGED errs

\* audio:stop resumes after `await clipboard.copyAndPaste(...)`:
\* the paste command succeeded or failed
PasteDone(c) ==
    /\ pipes[c].pc = "pasting"
    /\ UNCHANGED <<audioVars, currentAudioBuffer, configured, configVars,
                   dbVars, clip, previousContent, recordingState, nReq,
                   lastCall, deviceVars, opVars, services, unitVars>>
    /\ \/ /\ keystrokes' = keystrokes + 1
          /\ Complete(pipes, c, pipes[c].text)
          /\ UNCHANGED errs
       \/ /\ Catch(pipes, errs, c, Error(PasteFailedMessage), <<>>)
          /\ UNCHANGED <<keystrokes, results>>

\* ---- renderer ----------------------------------------------------------

\* recordingState after the listeners of App.tsx have handled message m
Listener(s, m) ==
    IF m.type = "state" THEN m.val
    ELSE IF m.type = "error" THEN "error"
    ELSE s

\* the renderer receives the oldest message in flight
Deliver ==
    /\ chan # <<>>
    /\ recordingState' = Listener(recordingState, Head(chan))
    /\ chan' = Tail(chan)
    /\ UNCHANGED <<audioVars, currentAudioBuffer, configured, configVars,
                   dbVars, clipVars, pipes, state, edges, errs, results,
                   nReq, lastCall, deviceVars, opVars, services, unitVars>>

\* no request is sent
NoRequest(via) ==
    /\ Call(via, "none", "none")
    /\ UNCHANGED <<audioVars, currentAudioBuffer, configured, configVars,
                   dbVars, clipVars, pipes, state, edges, errs, results,
                   chan, recordingState, deviceVars, opVars, services, unitVars>>

Request(via, req) ==
    CASE req = "start" -> AudioStart(via)
      [] req = "stop" -> AudioStop(via)
      [] OTHER -> NoRequest(via)

\* the 'hotkey:toggle-recording' listener of App.tsx
HotkeyToggle ==
    /\ nReq < MaxRequests
    /\ Request("hotkey", ToggleTarget(recordingState))

\* RecordingView.handleToggleRecording behind the record button
ButtonClick ==
    /\ nReq < MaxRequests
    /\ ButtonTarget(recordingState) # "none"
    /\ Request("button", ButtonTarget(recordingState))

\* some suspended audio:stop handler resumes
Transcribed == \E c \in 1..Len(pipes) : TranscribeDone(c)

Pasted == \E c \in 1..Len(pipes) : PasteDone(c)

Next ==
    \/ HotkeyToggle
    \/ ButtonClick
    \/ AudioCancel
    \/ DataChunk
    \/ Transcribed
    \/ Pasted
    \/ Deliver

Spec == Init /\ [][Next]_vars

TypeOK ==
    /\ state \in RecordingStates
    /\ configured = IsConfigured(services, primaryService)
    /\ recordingState \in RecordingStates
    /\ Len(errs) = Len(pipes)
    /\ Len(results) = Len(pipes)

\* ---- device failures and settings changes ------------------------------

\* open device handles: the one in this.audioIO and the unreferenced ones
OpenHandles == (IF audioIO THEN 1 ELSE 0) + leaked

\* handles that have been quit
ClosedHandles == opens - OpenHandles

\* AudioService.startRecording when the device fails: AudioIO(...) throws
\* (stage "open") or audioIO.start() throws after the handle was assigned
\* (stage "start"); the catch block clears isRecording and emits 'error'
StartRecordingFails(stage) ==
    /\ ~isRecording
    /\ chunks' = <<>>
    /\ isRecording' = FALSE
    /\ IF stage = "open"
       THEN UNCHANGED <<audioIO, opens, leaked>>
       ELSE /\ audioIO' = TRUE
            /\ opens' = opens + 1
            /\ leaked' = IF audioIO THEN leaked + 1 ELSE leaked
    /\ UNCHANGED levels

\* ipcMain.handle('audio:start') when startRecording fails: the engine's
\* emit('error', error) has no listener, so it throws error into the
\* handler's catch block
AudioStartFails(via) ==
    /\ \E stage \in StartStages : StartRecordingFails(stage)
    /\ \E m \in DeviceMessages : Send(<<ErrorMsg(ErrorMessage(Error(m)))>>)
    /\ Call(via, "start", "failed")
    /\ UNCHANGED <<currentAudioBuffer, configured, configVars, dbVars,
                   clipVars, pipes, errs, results, recordingState,
                   deviceVars, opVars, services, unitVars>>

\* a toggle or a click that sends audio:start, and the device fails
StartFails ==
    /\ nReq < MaxEnvRequests
    /\ \/ ToggleTarget(recordingState) = "start" /\ AudioStartFails("hotkey")
       \/ ButtonTarget(recordingState) = "start" /\ AudioStartFails("button")

\* the 'error' listener of the device during a capture session:
\* this.emit('error', err) throws because the engine has no 'error'
\* listener, so the listener ends before this.cleanup()
DeviceError ==
    /\ audioIO /\ isRecording
    /\ deviceErrors < MaxDeviceErrors
    /\ deviceErrors' = deviceErrors + 1
    /\ UNCHANGED <<audioVars, lateChunks, opVars, services, unitVars, currentAudioBuffer,
                   configured, configVars, dbVars, clipVars, pipes, state,
                   edges, errs, results, chan, recordingState, nReq,
                   lastCall>>

\* the 'data' listener of a device whose quit() has been called while a
\* read was in flight: the chunk is pushed and its level forwarded
LateChunk ==
    /\ lateChunks < ClosedHandles
    /\ Len(chunks) < MaxChunks
    /\ \E chunk \in Chunks : chunks' = Append(chunks, chunk)
    /\ levels' = levels + 1
    /\ lateChunks' = lateChunks + 1
    /\ UNCHANGED <<audioIO, isRecording, opens, leaked, deviceErrors, opVars, services, unitVars,
                   currentAudioBuffer, configured, configVars, dbVars,
                   clipVars, pipes, state, edges, errs, results, chan,
                   recordingState, nReq, lastCall>>

\* ipcMain.handle('config:set') for the key of the API key (the service is
\* reconfigured when the stored key is non-empty) and for its parent key
\* (stored only); value is whether the stored key is non-empty afterwards
ConfigSet ==
    \E key \in ConfigKeys, value \in BOOLEAN :
        /\ apiKey' = value
        /\ configured' = IF key = "transcription.openai.apiKey" /\ value
                         THEN TRUE
                         ELSE configured
        /\ services' = IF key = "transcription.openai.apiKey" /\ value
                       THEN ConfigureOpenAI(services, StoredKey, StoredModel)
                       ELSE services
        /\ UNCHANGED <<audioVars, deviceVars, opVars, unitVars, currentAudioBuffer,
                       autoCopy, autoPaste, dbVars, clipVars, pipes, state,
                       edges, errs, results, chan, recordingState, nReq,
                       lastCall>>

EnvHotkeyToggle == nReq < MaxEnvRequests /\ HotkeyToggle

EnvButtonClick == nReq < MaxEnvRequests /\ ButtonClick

EnvAudioCancel == nReq < MaxEnvRequests /\ AudioCancel

NextEnv ==
    \/ EnvHotkeyToggle
    \/ EnvButtonClick
    \/ EnvAudioCancel
    \/ StartFails
    \/ DataChunk
    \/ LateChunk
    \/ DeviceError
    \/ ConfigSet
    \/ Transcribed
    \/ Pasted
    \/ Deliver

SpecEnv == Init /\ [][NextEnv]_vars

\* ---- the clipboard manager on its own ----------------------------------

\* ipcMain.handle('clipboard:copy'): ClipboardManager.copy(text)
CopyRequest ==
    \E text \in CopyTexts :
        LET cb == ClipboardCopy([clip |-> clip, prev |-> previousContent], text)
        IN  /\ clip' = cb.clip
            /\ previousContent' = cb.prev
            /\ beforeCopy' = clip
            /\ lastOp' = [op |-> "copy", changed |-> FALSE]
            /\ UNCHANGED <<audioVars, deviceVars, services,
                           unitVars, currentAudioBuffer,
                           configured, configVars, dbVars, keystrokes, pipes,
                           state, edges, errs, results, chan, recordingState,
                           nReq, lastCall>>

\* ClipboardManager.restorePrevious(); lastOp.op is "restore" when it
\* wrote the clipboard and "noop" when it did not
RestorePrevious ==
    LET cb == ClipboardRestore([clip |-> clip, prev |-> previousContent])
    IN  /\ clip' = cb.clip
        /\ previousContent' = cb.prev
        /\ lastOp' = [op |-> IF previousContent # "" THEN "restore"
                              ELSE "noop",
                      changed |-> FALSE]
        /\ UNCHANGED <<audioVars, deviceVars, services,
                       unitVars, currentAudioBuffer, configured,
                       configVars, dbVars, keystrokes, beforeCopy, pipes,
                       state, edges, errs, results, chan, recordingState,
                       nReq, lastCall>>

\* the user or another application replaces the clipboard content; the
\* empty string is what readText() gives for an empty or non-text clipboard
ExternalWrite ==
    \E text \in ExternalTexts :
        /\ text # clip
        /\ clip' = text
        /\ lastOp' = [lastOp EXCEPT !.changed = TRUE]
        /\ UNCHANGED <<audioVars, deviceVars, services,
                       unitVars, currentAudioBuffer, configured,
                       configVars, dbVars, previousContent, keystrokes,
                       beforeCopy, pipes, state, edges, errs, results, chan,
                       recordingState, nReq, lastCall>>

NextClipboard ==
    \/ CopyRequest
    \/ RestorePrevious
    \/ ExternalWrite

SpecClipboard == Init /\ [][NextClipboard]_vars

\* ---- the transcription manager on its own ------------------------------

\* everything outside the manager and the database
mainVars == <<audioVars, deviceVars, opVars, currentAudioBuffer, configVars,
             dbVars, clipVars, pipes, state, edges, errs, results, chan,
             recordingState, nReq, lastCall>>

ipcVars == <<mainVars, libVars>>

\* the record of a manager call
MgrCall(op, name, key, model, service, thrown) ==
    [op |-> op, name |-> name, key |-> key, model |-> model,
     service |-> service, thrown |-> thrown,
     had |-> IsConfigured(services, primaryService)]

\* transcriptionManager.configureOpenAI(key, model)
ConfigureCall ==
    \E key \in ApiKeys, model \in Models :
        /\ services' = ConfigureOpenAI(services, key, model)
        /\ configured' = IsConfigured(services', primaryService)
        /\ lastMgr' = MgrCall("configure", "openai", key, model, <<>>, <<>>)
        /\ UNCHANGED <<ipcVars, primaryService, db, lastDb, clock>>

\* transcriptionManager.setPrimaryService(name)
SetPrimaryCall ==
    \E name \in ServiceNames :
        LET r == SetPrimaryService(services, primaryService, name)
        IN  /\ primaryService' = r.primary
            /\ configured' = IsConfigured(services, r.primary)
            /\ lastMgr' = MgrCall("setPrimary", name, "", "", <<>>, r.thrown)
            /\ UNCHANGED <<ipcVars, services, db, lastDb, clock>>

\* transcriptionManager.transcribe(audio, options)
TranscribeCall ==
    LET r == Transcribe(services, primaryService)
    IN  /\ lastMgr' = MgrCall("transcribe", primaryService, "", "",
                              r.service, r.thrown)
        /\ UNCHANGED <<ipcVars, services, configured, primaryService, db,
                       lastDb, clock>>

NextManager ==
    \/ ConfigureCall
    \/ SetPrimaryCall
    \/ TranscribeCall

SpecManager == Init /\ [][NextManager]_vars

\* ---- the history database on its own -----------------------------------

\* what a rollback restores
Committed(d) ==
    [transcriptions |-> d.transcriptions, fts |-> d.fts, seq |-> d.seq,
     deleted |-> d.deleted]

\* a statement has changed table transcriptions; the triggers for the
\* rows in changed have not run yet and call is what the method returns
Began(d, table, changed, op, call) ==
    [d EXCEPT !.transcriptions = table,
              !.journal = <<Committed(d)>>,
              !.pending = <<[op |-> op, rows |-> changed, call |-> call]>>]

storeFrame == <<ipcVars, services, configured, primaryService, lastMgr>>

\* database.insert(result, service): the INSERT statement
InsertStatement ==
    /\ db.pending = <<>>
    /\ db.seq < MaxInserts
    /\ \E result \in TranscriptionResults, service \in HistoryServiceNames :
          LET row == NewRow(db, result, service, clock)
              call == DbCall("insert", row.id, <<>>, 0,
                             <<[result |-> result, service |-> service]>>,
                             <<>>, FALSE)
          IN  db' = [Began(db, db.transcriptions \cup {row}, {row},
                           "insert", call) EXCEPT !.seq = @ + 1]
    /\ UNCHANGED <<storeFrame, lastDb, clock>>

\* database.delete(id): the DELETE statement; no row, no trigger
DeleteStatement ==
    /\ db.pending = <<>>
    /\ \E id \in 1..(MaxInserts + 1) :
          LET old == {r \in db.transcriptions : r.id = id}
              call == DbCall("delete", id, <<>>, 0, <<>>, <<>>, FALSE)
          IN  IF old = {}
              THEN db' = db /\ lastDb' = call
              ELSE /\ db' = [Began(db, db.transcriptions \ old, old,
                                   "delete", call)
                                EXCEPT !.deleted = @ \cup {id}]
                   /\ UNCHANGED lastDb
    /\ UNCHANGED <<storeFrame, clock>>

\* database.clear(): DELETE without WHERE; the delete trigger runs for
\* every row
ClearStatement ==
    /\ db.pending = <<>>
    /\ LET old == db.transcriptions
           call == DbCall("clear", 0, <<>>, 0, <<>>, <<>>, FALSE)
       IN  IF old = {}
           THEN db' = db /\ lastDb' = call
           ELSE /\ db' = [Began(db, {}, old, "clear", call)
                             EXCEPT !.deleted = @ \cup {r.id : r \in old}]
                /\ UNCHANGED lastDb
    /\ UNCHANGED <<storeFrame, clock>>

\* the triggers of the running statement run, the statement commits and
\* the method returns
TriggersAndCommit ==
    /\ db.pending # <<>>
    /\ LET p == db.pending[1]
       IN  /\ db' = [db EXCEPT
                        !.fts = IF p.op = "insert"
                                THEN AfterInsert(@, p.rows)
                                ELSE AfterDelete(@, p.rows),
                        !.returned = IF p.op = "insert"
                                     THEN @ \cup {[id |-> p.call.id,
                                                   arg |-> p.call.arg[1]]}
                                     ELSE @,
                        !.journal = <<>>,
                        !.pending = <<>>]
           /\ lastDb' = p.call
    /\ UNCHANGED <<storeFrame, clock>>

\* the process dies while a statement runs; on restart the journal is
\* rolled back and initSchema finds the schema in place
Crash ==
    /\ db.pending # <<>>
    /\ LET j == db.journal[1]
       IN  db' = [db EXCEPT !.transcriptions = j.transcriptions,
                           !.fts = j.fts,
                           !.seq = j.seq,
                           !.deleted = j.deleted,
                           !.journal = <<>>,
                           !.pending = <<>>,
                           !.reopened = TRUE]
    /\ lastDb' = DbCall("crash", 0, <<>>, 0, <<>>, <<>>, FALSE)
    /\ UNCHANGED <<storeFrame, clock>>

\* close() and a new TranscriptionDatabase() on the same file: every
\* statement of initSchema is IF NOT EXISTS and finds the schema in place
Reopen ==
    /\ db.pending = <<>>
    /\ db' = [db EXCEPT !.reopened = TRUE]
    /\ lastDb' = DbCall("open", 0, <<>>, 0, <<>>, <<>>, FALSE)
    /\ UNCHANGED <<storeFrame, clock>>

\* database.getRecent(limit)
GetRecentCall ==
    /\ db.pending = <<>>
    /\ \E arg \in {<<>>} \cup {<<n>> : n \in Limits} :
          \E res \in GetRecent(db, LimitOrDefault(arg)) :
             lastDb' = DbCall("getRecent", 0, <<>>, LimitOrDefault(arg),
                              <<>>, res, FALSE)
    /\ UNCHANGED <<storeFrame, db, clock>>

\* database.search(query): a query without a token is a syntax error
SearchCall ==
    /\ db.pending = <<>>
    /\ \E query \in UNION {Substrings(t) : t \in HistoryTexts} :
          IF Tokens(query) = {}
          THEN lastDb' = DbCall("search", 0, query, DefaultLimit, <<>>,
                                <<>>, TRUE)
          ELSE \E res \in Search(db, query) :
                  lastDb' = DbCall("search", 0, query, DefaultLimit, <<>>,
                                   res, FALSE)
    /\ UNCHANGED <<storeFrame, db, clock>>

\* database.getById(id)
GetByIdCall ==
    /\ db.pending = <<>>
    /\ \E id \in 1..(MaxInserts + 1) :
          lastDb' = DbCall("getById", id, <<>>, 0, <<>>, GetById(db, id),
                           FALSE)
    /\ UNCHANGED <<storeFrame, db, clock>>

\* a second passes
Tick ==
    /\ clock < MaxClock
    /\ clock' = clock + 1
    /\ UNCHANGED <<storeFrame, db, lastDb>>

NextStore ==
    \/ InsertStatement
    \/ DeleteStatement
    \/ ClearStatement
    \/ TriggersAndCommit
    \/ Crash
    \/ Reopen
    \/ GetRecentCall
    \/ SearchCall
    \/ GetByIdCall
    \/ Tick

\* the first launch: the defaults of the config store
InitDefaults == Init /\ ~apiKey /\ autoCopy /\ autoPaste

SpecStore == InitDefaults /\ [][NextStore]_vars

\* ---- properties --------------------------------------------------------

\* a step in which a request of kind req reaches its handler
Handled(req) == nReq' = nReq + 1 /\ lastCall'.req = req

\* cycles whose audio:stop handler is suspended at an await
InFlight == {c \in 1..Len(pipes) : pipes[c].pc \in {"transcribing", "pasting"}}

\* the transition table of the recording state machine
TransitionTable ==
    {<<"idle", "recording">>, <<"complete", "recording">>,
     <<"error", "recording">>, <<"recording", "processing">>,
     <<"recording", "idle">>, <<"processing", "complete">>,
     <<"processing", "error">>}

\* C1: when stop is handled during a capture session, the buffer that
\* stopRecording returns is the concatenation, in arrival order, of the
\* chunks delivered since the session started.
C1_StopReturnsConcatenation ==
    [][(Handled("stop") /\ isRecording)
          => currentAudioBuffer' = BufferConcat(chunks)]_vars

\* C2: a cycle that ended in the error state has left no row in the
\* history store.
C2_NoHistoryForFailedCycle ==
    \A c \in 1..Len(pipes) :
        pipes[c].pc = "error" => ~ \E r \in rows : r.id = pipes[c].rowId

\* C3: every change of the emitted pipeline state is an edge of the
\* transition table.
C3_TransitionsFollowTable ==
    \A e \in edges : e[1] # e[2] => e \in TransitionTable

C5_StartWhileProcessingRejected ==
    [][(Handled("start") /\ InFlight # {})
          => /\ isRecording' = isRecording
             /\ opens' = opens
             /\ state' = state]_vars

\* C6: at most one invocation of the stop pipeline is between its
\* transcribe call and its end.
C6_OneStopPipeline == Cardinality(InFlight) <= 1

\* C7: a cycle that fails moves the emitted state to error in the step in
\* which it fails and sends exactly one error message, the message of the
\* error that was thrown (for a backend failure: the backend's message);
\* no message is added for the cycle later, and a cycle that has not failed
\* has sent none.
C7_OneVerbatimErrorPerFailure ==
    [][\A c \in 1..Len(pipes') :
          IF pipes'[c].pc # "error"
          THEN errs'[c] = <<>>
          ELSE IF c <= Len(pipes) /\ pipes[c].pc = "error"
          THEN errs'[c] = errs[c]
          ELSE /\ state' = "error"
               /\ errs'[c] = <<pipes'[c].thrown[1].message>>
               /\ Len(chan') >= 2
               /\ chan'[Len(chan') - 1] = ErrorMsg(pipes'[c].thrown[1].message)
               /\ chan'[Len(chan')] = StateMsg("error")
               /\ (c <= Len(pipes) /\ pipes[c].pc = "transcribing"
                     /\ pipes'[c].text = "")
                    => pipes'[c].thrown[1].message \in BackendMessages]_vars

\* C7 witness: the backend rejected cycle 1 with "rate limited"; the state
\* went from processing to error and that message is the one sent.
C7_Witness ==
    /\ Len(pipes) = 1
    /\ pipes[1].pc = "error"
    /\ pipes[1].thrown = <<Error("rate limited")>>
    /\ errs[1] = <<"rate limited">>
    /\ state = "error"
    /\ <<"processing", "error">> \in edges
    /\ rows = {}

\* C8: a cancel request that meets an active capture session closes the
\* device, discards the chunks and emits idle, and nothing else: no
\* transcribe call, no history row, clipboard and snapshot slot unchanged,
\* no result and no error event.
C8_CancelOnlyTearsDown ==
    [][(Handled("cancel") /\ isRecording)
          => /\ ~isRecording' /\ ~audioIO' /\ chunks' = <<>>
             /\ state' = "idle"
             /\ chan' = Append(chan, StateMsg("idle"))
             /\ pipes' = pipes
             /\ rows' = rows /\ nextId' = nextId
             /\ clip' = clip /\ previousContent' = previousContent
             /\ keystrokes' = keystrokes
             /\ errs' = errs /\ results' = results
             /\ opens' = opens]_vars

\* C8 witness: a session was started, chunks arrived, and the cancel that
\* followed has discarded them.
C8_Witness ==
    /\ nReq = 2
    /\ lastCall.req = "cancel"
    /\ lastCall.active
    /\ levels > 0
    /\ chunks = <<>>
    /\ ~isRecording
    /\ state = "idle"
    /\ pipes = <<>>

\* C9: a cancel request handled while the emitted state is processing does
\* not move the emitted state to idle and leaves the running cycle alone.
C9_CancelWhileProcessingNoEffect ==
    [][(Handled("cancel") /\ state = "processing")
          => state' # "idle" /\ pipes' = pipes]_vars

NewMsgs ==
    IF Len(chan') > Len(chan)
    THEN SubSeq(chan', Len(chan) + 1, Len(chan'))
    ELSE <<>>

\* C15: a cycle has exactly one result event when it is complete and none
\* otherwise (error, still running); the result event is sent in the step
\* that makes the state complete, immediately before that state message,
\* and neither a cancel nor any other step sends a result event.
C15_ResultOncePerCompletedCycle ==
    [][/\ \A c \in 1..Len(pipes') :
            Len(results'[c]) = (IF pipes'[c].pc = "complete" THEN 1 ELSE 0)
       /\ \A c \in 1..Len(pipes) :
            results'[c] # results[c] =>
                /\ pipes[c].pc # "complete"
                /\ NewMsgs = <<ResultMsg(pipes'[c].text), StateMsg("complete")>>
                /\ state' = "complete"
       /\ \A i \in DOMAIN NewMsgs :
            NewMsgs[i].type = "result" =>
                \E c \in 1..Len(pipes) : results'[c] # results[c]
       /\ Handled("cancel") => NewMsgs = <<StateMsg("idle")>>]_vars

\* one cycle completed with its result, another ended in error without one
C15_Witness ==
    \E c, d \in 1..Len(pipes) :
        /\ pipes[c].pc = "complete"
        /\ results[c] = <<pipes[c].text>>
        /\ pipes[d].pc = "error"
        /\ pipes[d].thrown # <<>>
        /\ results[d] = <<>>

\* C16: within one stop cycle the backend's transcribe is called at most
\* once, and exactly once in a cycle whose transcription failed.
C16_NoRetry ==
    \A c \in 1..Len(pipes) :
        /\ pipes[c].calls <= 1
        /\ (pipes[c].thrown # <<>> /\ pipes[c].thrown[1].message \in BackendMessages)
              => pipes[c].calls = 1

\* a cycle whose single transcribe call was rejected by the backend
C16_Witness ==
    \E c \in 1..Len(pipes) :
        /\ pipes[c].pc = "error"
        /\ pipes[c].thrown # <<>>
        /\ pipes[c].thrown[1].message \in BackendMessages
        /\ pipes[c].calls = 1

\* C11: a level event is forwarded only in a step taken while the emitted
\* state is recording and a capture session is active, also when a device
\* that has been quit still delivers a chunk.
C11_LevelsOnlyWhileRecording ==
    [][levels' # levels => (state = "recording" /\ isRecording)]_vars

\* C12: a device error during a capture session leaves the engine not
\* recording, with the device closed and the buffered chunks discarded.
C12_DeviceErrorAbortsSession ==
    [][deviceErrors' > deviceErrors =>
          (~isRecording' /\ ~audioIO' /\ chunks' = <<>>)]_vars

\* a device failure: a start that failed or a device error mid-stream
DeviceFailure ==
    \/ deviceErrors' > deviceErrors
    \/ Handled("start") /\ lastCall'.reply = "failed"

\* C13: after a device failure the emitted state is idle or error, or an
\* error message that makes the UI show error has just been sent; the
\* state is not recording unless a capture session is active.
C13_DeviceFailureLeavesRecording ==
    [][DeviceFailure =>
          /\ \/ state' \in {"idle", "error"}
             \/ NewMsgs # <<>> /\ NewMsgs[Len(NewMsgs)].type = "error"
          /\ state' = "recording" => isRecording']_vars

\* C14: at most one device handle is open.
C14_AtMostOneOpenHandle == OpenHandles <= 1

\* C17: a stop during a capture session with no service registered
\* registers one from the stored key and calls transcribe once; with no
\* stored key the cycle ends in error with the configuration message,
\* the state is error, transcribe is not called and no row is inserted.
C17_LazyConfiguration ==
    [][(Handled("stop") /\ isRecording /\ ~configured) =>
          LET c == Len(pipes')
          IN  IF apiKey
              THEN /\ configured'
                   /\ pipes'[c].pc = "transcribing"
                   /\ pipes'[c].calls = 1
                   /\ errs'[c] = <<>>
                   /\ state' = "processing"
              ELSE /\ ~configured'
                   /\ pipes'[c].pc = "error"
                   /\ pipes'[c].calls = 0
                   /\ errs'[c] = <<NotConfiguredMessage>>
                   /\ state' = "error"
                   /\ rows' = rows]_vars

\* a cycle that registered the service from the stored key has completed
C17_Witness ==
    \E c \in 1..Len(pipes) :
        /\ pipes[c].lazy
        /\ pipes[c].calls = 1
        /\ pipes[c].pc = "complete"

\* a step in which the paste command of cycle c fails
PasteFails(c) ==
    /\ c \in 1..Len(pipes)
    /\ pipes[c].pc = "pasting"
    /\ pipes'[c].pc # "pasting"
    /\ keystrokes' = keystrokes

\* C18: when the paste of a cycle fails, the failure is reported, the
\* text is on the clipboard, and the cycle's transcription is still
\* delivered as its result.
C18_PasteFailureNotFatal ==
    [][\A c \in 1..Len(pipes) :
          PasteFails(c) =>
              /\ errs'[c] = <<PasteFailedMessage>>
              /\ clip' = pipes[c].text
              /\ results'[c] = <<pipes[c].text>>]_vars

\* a step that is a call of restorePrevious()
Restores == lastOp'.op \in {"restore", "noop"} /\ ~lastOp'.changed

\* C19: restorePrevious() called right after copy(t) leaves the clipboard
\* at the value it had immediately before that copy, whatever that value
\* was.
C19_CopyThenRestore ==
    [][(lastOp = [op |-> "copy", changed |-> FALSE] /\ Restores) =>
          clip' = beforeCopy]_vars

MgrStep(op) ==
    /\ lastMgr'.op = op
    /\ lastMgr' # lastMgr \/ services' # services
         \/ primaryService' # primaryService

\* the positions of name in the registry
Registered(svcs, name) == {i \in DOMAIN svcs : svcs[i].key = name}

\* C22: after a configure call the registry lists the backend name
\* exactly once and its instance carries the key and the model of that
\* call; no other call changes the registry.
C22_ConfigureIsUpsert ==
    [][/\ MgrStep("configure") =>
            /\ Cardinality(Registered(services', "openai")) = 1
            /\ GetAvailableServices(services') = <<"openai">>
            /\ MapGet(services', "openai").apiKey = lastMgr'.key
            /\ MapGet(services', "openai").model = lastMgr'.model
       /\ (MgrStep("setPrimary") \/ MgrStep("transcribe")) =>
            services' = services]_vars

\* a configure call found the backend registered and replaced its key
C22_Witness ==
    /\ lastMgr.op = "configure"
    /\ lastMgr.had
    /\ lastMgr.key = "sk-new"
    /\ lastMgr.model = "gpt-4o-transcribe"
    /\ services = <<[key |-> "openai",
                     value |-> OpenAITranscriptionService("sk-new",
                                                          "gpt-4o-transcribe")]>>

\* C23: setPrimaryService(name) throws and changes nothing when name is
\* not registered, and makes name the primary when it is.
C23_SetPrimaryGuarded ==
    [][MgrStep("setPrimary") =>
          /\ services' = services
          /\ IF MapHas(services, lastMgr'.name)
             THEN primaryService' = lastMgr'.name /\ lastMgr'.thrown = <<>>
             ELSE /\ primaryService' = primaryService
                  /\ lastMgr'.thrown # <<>>
                  /\ lastMgr'.thrown[1].isError]_vars

\* setPrimaryService was called with a name that is not registered
C23_Witness ==
    /\ lastMgr.op = "setPrimary"
    /\ lastMgr.name = "local"
    /\ lastMgr.thrown # <<>>
    /\ primaryService = "openai"

\* C24: transcribe calls the instance registered under the primary name,
\* or throws without calling any instance when there is none; isConfigured
\* is true exactly when it calls an instance.
C24_TranscribeDelegatesToPrimary ==
    [][MgrStep("transcribe") =>
          /\ IF MapHas(services, primaryService)
             THEN /\ lastMgr'.service = <<MapGet(services, primaryService)>>
                  /\ lastMgr'.thrown = <<>>
             ELSE /\ lastMgr'.service = <<>>
                  /\ lastMgr'.thrown # <<>>
          /\ lastMgr'.had <=> (lastMgr'.service # <<>>)
          /\ UNCHANGED <<services, primaryService>>]_vars

\* transcribe was called with nothing registered under the primary name
C24_Witness ==
    /\ lastMgr.op = "transcribe"
    /\ ~lastMgr.had
    /\ lastMgr.service = <<>>
    /\ lastMgr.thrown # <<>>

\* a step in which the transcription of cycle c resolves and its row is
\* inserted, so that the output handling runs
OutputHandled(c) ==
    /\ c \in 1..Len(pipes)
    /\ pipes[c].pc = "transcribing"
    /\ pipes'[c].pc \in {"pasting", "complete"}

\* C21: when the output handling of a cycle runs, the clipboard holds the
\* text afterwards if auto-copy is on and the clipboard and the snapshot
\* slot are untouched if it is off; the paste is attempted exactly when
\* auto-paste is on.
C21_OutputFollowsToggles ==
    [][\A c \in 1..Len(pipes) :
          OutputHandled(c) =>
              /\ IF autoCopy
                 THEN clip' = pipes'[c].text
                 ELSE clip' = clip /\ previousContent' = previousContent
              /\ (pipes'[c].pc = "pasting") <=> autoPaste]_vars

\* a step in which a database call of kind op returns
DbStep(op) == lastDb'.op = op /\ lastDb' # lastDb

\* the ids of a sequence of rows
Ids(res) == {res[i].id : i \in DOMAIN res}

\* the inserts that returned an id which has not been removed since
Live(d) == {e \in d.returned : e.id \notin d.deleted}

C26_SearchFindsSubstrings ==
    [][DbStep("search") =>
          \A e \in Live(db) :
              lastDb'.query \in Substrings(e.arg.result.text) =>
                  (~lastDb'.thrown /\ e.id \in Ids(lastDb'.rows))]_vars

\* C27: delete(k) of an existing row removes that row and its index entry
\* and nothing else, delete of an id that does not exist changes nothing;
\* afterwards no search returns a row with a removed id and getById of a
\* removed id returns nothing.
C27_DeleteRemovesFromSearch ==
    [][/\ DbStep("delete") =>
            LET k == lastDb'.id
                before == IF db.pending # <<>> THEN db.journal[1]
                          ELSE Committed(db)
            IN  /\ db'.pending = <<>>
                /\ db'.transcriptions =
                       {r \in before.transcriptions : r.id # k}
                /\ db'.fts = {e \in before.fts : e[1] # k}
                /\ db'.seq = before.seq
       /\ DbStep("search") => Ids(lastDb'.rows) \cap db.deleted = {}
       /\ (DbStep("getById") /\ lastDb'.id \in db.deleted) =>
            lastDb'.rows = <<>>]_vars

\* a search on the text of a deleted row returned nothing while another
\* row is still stored
C27_Witness ==
    /\ lastDb.op = "search"
    /\ ~lastDb.thrown
    /\ lastDb.rows = <<>>
    /\ db.transcriptions # {}
    /\ \E e \in db.returned :
          /\ e.id \in db.deleted
          /\ Matches(lastDb.query, e.arg.result.text)

\* C28: whenever no statement is running, after a crash included, the
\* (rowid, text) pairs of the index are those of table transcriptions.
C28_IndexMatchesTable ==
    /\ (db.pending = <<>>) <=> (db.journal = <<>>)
    /\ db.pending = <<>> => db.fts = Pairs(db.transcriptions)

\* the process crashed during a statement while a row was stored
C28_Witness ==
    /\ lastDb.op = "crash"
    /\ db.seq = 1
    /\ db.transcriptions # {}
    /\ db.fts = Pairs(db.transcriptions)

\* C29: getRecent(limit) returns at most limit rows, ordered so that a
\* row inserted later comes first, and no row left out was inserted later
\* than a row returned.
C29_RecentNewestFirst ==
    [][DbStep("getRecent") =>
          LET res == lastDb'.rows
          IN  /\ Len(res) <= lastDb'.limit
              /\ \A i, j \in DOMAIN res : i < j => res[i].id > res[j].id
              /\ \A r \in db.transcriptions :
                    r.id \notin Ids(res) =>
                        \A i \in DOMAIN res : res[i].id > r.id]_vars

\* C30: a getRecent call with limit >= 1 made right after insert returned
\* id k returns a sequence that includes row k.
C30_RecentIncludesNewRow ==
    [][(DbStep("getRecent") /\ lastDb.op = "insert" /\ lastDb'.limit >= 1) =>
          lastDb.id \in Ids(lastDb'.rows)]_vars


\* an insert returns its id
InsertReturns ==
    /\ db.pending # <<>>
    /\ db.pending[1].op = "insert"
    /\ db'.pending = <<>>
    /\ lastDb'.op = "insert"

\* C31: the id an insert returns is larger than every id an insert has
\* returned before, whether the row that held the earlier id is still
\* there, was removed by delete or clear, or the file was opened again in
\* between
C31_IdsStrictlyIncreasing ==
    [][InsertReturns =>
          /\ \A e \in db.returned : e.id < lastDb'.id
          /\ \A id \in db.deleted : id < lastDb'.id]_vars

\* an insert into a table emptied by a delete, after the file was opened
\* again, has returned an id larger than the deleted one
C31_Witness ==
    /\ lastDb.op = "insert"
    /\ db.reopened
    /\ db.deleted # {}
    /\ {r.id : r \in db.transcriptions} = {lastDb.id}
    /\ \A id \in db.deleted : id < lastDb.id


\* ---- the encoder on its own --------------------------------------------

encFrame == <<mainVars, services, configured, primaryService, lastMgr, db,
              lastDb, clock, conv, ptt>>

\* encodeWav(audioBuffer), as OpenAITranscriptionService.transcribe calls
\* it, or with the parameters given
EncodeWavCall ==
    /\ enc.n < MaxEncodes
    /\ \E audioBuffer \in PcmBuffers(MaxPcmLen), sampleRate \in SampleRates,
          channels \in ChannelCounts, bitsPerSample \in SampleSizes :
          enc' = [n |-> enc.n + 1, audioBuffer |-> audioBuffer,
                  sampleRate |-> sampleRate, channels |-> channels,
                  bitsPerSample |-> bitsPerSample,
                  out |-> EncodeWav(audioBuffer, sampleRate, channels,
                                    bitsPerSample),
                  repeated |->
                      /\ enc.n > 0
                      /\ <<audioBuffer, sampleRate, channels, bitsPerSample>>
                             = <<enc.audioBuffer, enc.sampleRate,
                                 enc.channels, enc.bitsPerSample>>]
    /\ UNCHANGED encFrame

NextEncoder == EncodeWavCall

SpecEncoder == InitDefaults /\ [][NextEncoder]_vars

\* the arguments of the last encodeWav call
EncArgs(e) == <<e.audioBuffer, e.sampleRate, e.channels, e.bitsPerSample>>

\* the call was encode(buf, 16000, 1, 16)
EncDefault(e) ==
    e.n > 0 /\ e.sampleRate = 16000 /\ e.channels = 1 /\ e.bitsPerSample = 16

\* C32: encode(buf, 16000, 1, 16) returns 44 + len(buf) bytes, buf
\* unchanged after the 44 header bytes, the data-size field (offset 40)
\* equal to len(buf) and the total-size field (offset 4) equal to the output
\* length minus 8; a second call with the same buffer returns the same bytes
C32_EncodeHeaderAndPayload ==
    /\ [](EncDefault(enc) =>
            /\ Len(enc.out) = 44 + Len(enc.audioBuffer)
            /\ SubSeq(enc.out, 45, Len(enc.out)) = enc.audioBuffer
            /\ ReadUInt32LE(enc.out, 40) = Len(enc.audioBuffer)
            /\ ReadUInt32LE(enc.out, 4) = Len(enc.out) - 8)
    /\ [][(EncDefault(enc) /\ enc'.n = enc.n + 1
             /\ EncArgs(enc') = EncArgs(enc)) => enc'.out = enc.out]_vars

\* the same non-empty buffer was encoded twice with the default parameters
C32_Witness ==
    /\ EncDefault(enc)
    /\ enc.repeated
    /\ Len(enc.audioBuffer) = MaxPcmLen
    /\ enc.out = EncodeWav(enc.audioBuffer, 16000, 1, 16)
    /\ 255 \in {enc.audioBuffer[i] : i \in DOMAIN enc.audioBuffer}


\* ---- the backend adapter on its own ------------------------------------

convFrame == <<mainVars, services, configured, primaryService, lastMgr, db,
               lastDb, clock, enc, ptt>>

\* await this.client.audio.transcriptions.create(params) returns
Responds ==
    /\ conv.pc = "idle"
    /\ \E response \in Responses :
          conv' = [conv EXCEPT !.pc = "responded", !.response = response]
    /\ UNCHANGED convFrame

\* transcribe returns the result made of the response
ReturnResult ==
    /\ conv.pc = "responded"
    /\ conv' = [conv EXCEPT !.pc = "returned",
                            !.result = ToTranscriptionResult(conv.response)]
    /\ UNCHANGED convFrame

NextAdapter ==
    \/ Responds
    \/ ReturnResult

SpecAdapter == InitDefaults /\ [][NextAdapter]_vars

\* starts do not decrease along the sequence and no end precedes its start
Ordered(timings) ==
    /\ \A i \in DOMAIN timings : timings[i].end >= timings[i].start
    /\ \A i, j \in DOMAIN timings :
          i < j => timings[i].start <= timings[j].start

\* every start and end of the result is that of the response times factor
Scaled(given, made, factor) ==
    /\ Len(given) = Len(made)
    /\ \A i \in DOMAIN given :
          /\ made[i].start = given[i].start * factor
          /\ made[i].end = given[i].end * factor

C34_RecordingIffStateRecording == isRecording <=> state = "recording"


\* a toggle handled as a stop because the renderer still showed recording
\* while the pipeline was already processing
StaleToggle ==
    /\ Handled("stop")
    /\ lastCall'.via = "hotkey"
    /\ lastCall'.seen = "recording"
    /\ state = "processing"

\* C35: a second toggle that arrives while the first one's stop is being
\* processed starts no second stop pipeline and does not move the emitted
\* state to error, and the emitted state never goes from error directly to
\* complete.
C35_SecondToggleHarmless ==
    [][/\ StaleToggle => (state' # "error" /\ InFlight' = InFlight)
       /\ <<"error", "complete">> \notin edges']_vars


\* ---- the push-to-talk manager on its own -------------------------------

pttFrame == <<mainVars, services, configured, primaryService, lastMgr, db,
              lastDb, clock, enc, conv>>

\* a key goes down, or repeats while it is held; the hook delivers the
\* event while it is running
KeyDown ==
    /\ ptt.n < MaxKeyEvents
    /\ \E keycode \in ModifierKeys :
          LET p == [ptt EXCEPT !.n = @ + 1, !.down = @ \cup {keycode}]
          IN  ptt' = IF p.isRunning
                     THEN HookKeyDown(p, keycode, isRecording, p.listeners)
                     ELSE p
    /\ UNCHANGED pttFrame

\* a key that is held goes up
KeyUp ==
    /\ ptt.n < MaxKeyEvents
    /\ \E keycode \in ptt.down :
          LET p == [ptt EXCEPT !.n = @ + 1, !.down = @ \ {keycode}]
          IN  ptt' = IF p.isRunning
                     THEN HookKeyUp(p, keycode, isRecording, p.listeners)
                     ELSE p
    /\ UNCHANGED pttFrame

PttStart ==
    /\ ptt.n < MaxKeyEvents
    /\ ptt' = PttStartCall([ptt EXCEPT !.n = @ + 1])
    /\ UNCHANGED pttFrame

PttStop ==
    /\ ptt.n < MaxKeyEvents
    /\ ptt' = PttStopCall([ptt EXCEPT !.n = @ + 1])
    /\ UNCHANGED pttFrame

PttSetModifierKey ==
    /\ ptt.n < MaxKeyEvents
    /\ \E key \in ModifierKeys :
          ptt' = SetModifierKey([ptt EXCEPT !.n = @ + 1], key)
    /\ UNCHANGED pttFrame

NextPttManager ==
    \/ KeyDown
    \/ KeyUp
    \/ PttStart
    \/ PttStop
    \/ PttSetModifierKey

SpecPttManager == InitDefaults /\ [][NextPttManager]_vars

\* 'start' and 'stop' take turns, 'start' first
Alternate(events) ==
    \A i \in DOMAIN events :
       events[i] = IF i % 2 = 1 THEN "start" ELSE "stop"

\* C39: the events emitted by the push-to-talk manager alternate between
\* 'start' and 'stop', beginning with 'start'.
C39_StartStopAlternate == Alternate(ptt.emitted)


\* ---- push-to-talk with the pipeline ------------------------------------

\* the renderer receives a 'hotkey:toggle-recording' message sent by a
\* listener of setupPushToTalk and its request is handled
PttToggle ==
    /\ nReq < ptt.sent
    /\ HotkeyToggle

NextPushToTalk ==
    \/ KeyDown
    \/ KeyUp
    \/ PttToggle
    \/ DataChunk
    \/ Transcribed
    \/ Pasted
    \/ Deliver

SpecPushToTalk == Init /\ [][NextPushToTalk]_vars

\* no key is held, every toggle message has been handled and every
\* message to the renderer delivered
PttQuiet == ptt.down = {} /\ nReq = ptt.sent /\ chan = <<>>

\* C36: once the push-to-talk key is released and all pending messages are
\* delivered, the capture engine is not recording.
C36_ReleaseStopsRecording == PttQuiet => ~isRecording


\* C37: with auto-copy and auto-paste both on, the output handling of a
\* cycle leaves in the snapshot slot the clipboard content it found, so that
\* restorePrevious() afterwards puts that content back.
C37_SnapshotIsUsersContent ==
    [][\A c \in 1..Len(pipes) :
          (OutputHandled(c) /\ autoCopy /\ autoPaste) =>
              /\ previousContent' = clip
              /\ ClipboardRestore([clip |-> clip',
                                   prev |-> previousContent']).clip = clip]_vars


\* ---- the pipeline when every pending call settles ----------------------

LiveHotkeyToggle == nReq < MaxLiveRequests /\ HotkeyToggle

LiveButtonClick == nReq < MaxLiveRequests /\ ButtonClick

LiveAudioCancel == nReq < MaxLiveRequests /\ AudioCancel

NextLive ==
    \/ LiveHotkeyToggle
    \/ LiveButtonClick
    \/ LiveAudioCancel
    \/ DataChunk
    \/ Transcribed
    \/ Pasted
    \/ Deliver

\* the promise of transcription.transcribe and the exec callback of paste
\* settle, and the handler awaiting them resumes
Settles ==
    \A c \in 1..MaxLiveRequests :
       /\ WF_vars(c \in DOMAIN pipes /\ TranscribeDone(c))
       /\ WF_vars(c \in DOMAIN pipes /\ PasteDone(c))

SpecLive == Init /\ [][NextLive]_vars /\ Settles

\* every cycle in flight ends in complete or error
CyclesEnd ==
    \A c \in 1..MaxLiveRequests :
       (c \in InFlight)
          ~> (c \in DOMAIN pipes /\ pipes[c].pc \in {"complete", "error"})

\* the emitted state leaves processing for complete or error only
ProcessingEdges ==
    \A e \in edges : e[1] = "processing" => e[2] \in {"complete", "error"}

\* C38: every cycle that enters processing reaches complete or error, and
\* the emitted state leaves processing by no other edge.
C38_ProcessingEnds == CyclesEnd /\ []ProcessingEdges

====
